---- MODULE Spec2Model ----
(***************************************************************************)
(* The CV ingestion-enrichment pipeline of cc-ceevee: the server action    *)
(* scanCv (src/actions/scanCv.ts) with its collaborators, the Supabase     *)
(* storage bucket "cvs", the tables scans and scan_results, the PDF text   *)
(* extraction helpers (src/lib/pdf.ts) and the Tavily search client        *)
(* (src/lib/tavily.ts), and the client component that calls scanCv         *)
(* (src/components/upload/UploadZone.tsx).                                 *)
(*                                                                         *)
(* Each invocation of scanCv is a process r \in Runs.  One action models   *)
(* one awaited collaborator call together with the synchronous code that   *)
(* follows it up to the next await or return.  Strings the code computes   *)
(* on are sequences of one-character strings; a nullable column holds      *)
(* Null or Some(v).                                                        *)
(***************************************************************************)
EXTENDS Integers, Sequences, FiniteSets, TLC

(***************************************************************************)
(* Bounds of the model.                                                    *)
(***************************************************************************)
\* Date.now() takes values in 0..MaxClock
MaxClock == 1
\* the provider returns at most MaxResults items (max_results: 8 in the code)
MaxResults == 2

\* two invocations of scanCv; they interleave at every await
Runs == {1, 2}

(***************************************************************************)
(* Strings as sequences of characters.                                     *)
(***************************************************************************)
Null == {}
Some(v) == {v}

Min(a, b) == IF a <= b THEN a ELSE b

UpperCase == << "A","B","C","D","E","F","G","H","I","J","K","L","M",
                "N","O","P","Q","R","S","T","U","V","W","X","Y","Z" >>
LowerCase == << "a","b","c","d","e","f","g","h","i","j","k","l","m",
                "n","o","p","q","r","s","t","u","v","w","x","y","z" >>

\* String.prototype.toLowerCase on one character
ToLower(c) ==
    IF \E i \in 1..26 : UpperCase[i] = c
    THEN LowerCase[CHOOSE i \in 1..26 : UpperCase[i] = c]
    ELSE c

\* String.prototype.slice(0, n)
Slice0(s, n) == SubSeq(s, 1, Min(n, Len(s)))

WhiteSpace == {" ", "\t", "\n", "\r"}

\* String.prototype.trim
RECURSIVE TrimLeft(_)
TrimLeft(s) ==
    IF s # <<>> /\ Head(s) \in WhiteSpace THEN TrimLeft(Tail(s)) ELSE s

RECURSIVE TrimRight(_)
TrimRight(s) ==
    IF s # <<>> /\ s[Len(s)] \in WhiteSpace
    THEN TrimRight(SubSeq(s, 1, Len(s) - 1))
    ELSE s

Trim(s) == TrimRight(TrimLeft(s))

\* String.prototype.split("\n"): always at least one piece
RECURSIVE SplitLines(_)
SplitLines(s) ==
    LET nl == {i \in 1..Len(s) : s[i] = "\n"} IN
    IF nl = {} THEN << s >>
    ELSE LET i == CHOOSE j \in nl : \A k \in nl : j <= k IN
         << SubSeq(s, 1, i - 1) >> \o SplitLines(SubSeq(s, i + 1, Len(s)))

\* Array.prototype.filter(Boolean) on strings: the empty string is falsy
FilterNonEmpty(ls) == SelectSeq(ls, LAMBDA l : l # <<>>)

MapTrim(ls) == [i \in 1..Len(ls) |-> Trim(ls[i])]

NameQuerySuffix ==
    <<" ","p","r","o","f","e","s","s","i","o","n","a","l"," ","b","a","c","k",
      "g","r","o","u","n","d"," ","w","o","r","k"," ","e","x","p","e","r","i",
      "e","n","c","e">>

FallbackQueryPrefix ==
    <<"c","a","n","d","i","d","a","t","e"," ","p","r","o","f","i","l","e",":",
      " ">>

TextJordan ==
    <<"J","o","r","d","a","n"," ","L","e","e","\n","S","e","n","i","o","r",
      " ","E","n","g","i","n","e","e","r">>

TextBob ==
    <<"\n"," "," ","B","o","b"," ","D","o","n","g"," ","\n","g","i","t","h",
      "u","b",".","c","o","m","/","b","o","b">>

(***************************************************************************)
(* src/lib/pdf.ts                                                          *)
(***************************************************************************)
\* the characters of the class [@|http|www|resume|curriculum|cv]
NonNameClass ==
    {"@", "|", "h", "t", "p", "w", "r", "e", "s", "u", "m", "c", "i", "l", "v"}

\* /[@|http|www|resume|curriculum|cv]/i.test(s)
NonNamePatternTest(s) == \E i \in 1..Len(s) : ToLower(s[i]) \in NonNameClass

NameMaxLen == 60
QuerySnippetLen == 200
StoredTextLen == 5000

extractCandidateName(text) ==
    LET lines == FilterNonEmpty(MapTrim(SplitLines(text))) IN
    IF Len(lines) = 0 THEN Null
    ELSE LET firstLine == lines[1] IN
         IF Len(firstLine) < NameMaxLen /\ ~NonNamePatternTest(firstLine)
         THEN Some(firstLine)
         ELSE Null

\* name ? ... : ... is taken when name is neither null nor the empty string
Truthy(opt) == opt # Null /\ opt # Some(<<>>)

TheValue(opt) == CHOOSE v \in opt : TRUE


\* s has sub as a substring
Contains(s, sub) ==
    \E i \in 0..(Len(s) - Len(sub)) : SubSeq(s, i + 1, i + Len(sub)) = sub

\* a variant of buildSearchQuery that puts the keywords found in the first
\* 500 characters into the query
buildSearchQueryWithKeywords(text, name) ==
    LET snippet == Slice0(text, 500)
        kw1 == IF Contains(snippet, <<"l","i","n","k","e","d","i","n">>)
               THEN << " " >> \o <<"l","i","n","k","e","d","i","n">> ELSE << >>
        kw2 == IF Contains(snippet, <<"g","i","t","h","u","b">>)
               THEN << " " >> \o <<"g","i","t","h","u","b">> ELSE << >>
    IN (IF Truthy(name)
        THEN TheValue(name) \o NameQuerySuffix
        ELSE FallbackQueryPrefix \o Slice0(text, QuerySnippetLen)) \o kw1 \o kw2

buildSearchQuery(text, name) ==
    IF Truthy(name)
    THEN TheValue(name) \o NameQuerySuffix
    ELSE FallbackQueryPrefix \o Slice0(text, QuerySnippetLen)

\* documents whose text is one character shorter than, as long as, and one
\* character longer than what the final update stores
LongDocuments == {"long-1", "long", "long+1"}

\* the lines of TextBob followed by one line that fills the text up to n
\* characters
TextOfLength(n) ==
    TextBob \o << "\n" >> \o [i \in 1..(n - Len(TextBob) - 1) |-> "x"]

\* pdfParse(buffer): the text of a readable document, or a throw
Readable(bytes) == bytes \in {"jordan", "bob"} \cup LongDocuments

extractTextFromPdf(bytes) ==
    IF bytes = "jordan" THEN TextJordan
    ELSE IF bytes = "bob" THEN TextBob
    ELSE IF bytes = "long-1" THEN TextOfLength(StoredTextLen - 1)
    ELSE IF bytes = "long" THEN TextOfLength(StoredTextLen)
    ELSE TextOfLength(StoredTextLen + 1)

(***************************************************************************)
(* The inputs of scanCv: formData.get("file") is absent or a File.         *)
(***************************************************************************)
MAX_FILE_SIZE == 10 * 1024 * 1024

FileNames == {"cv.pdf"}
FileTypes == {"application/pdf", "text/plain"}
FileSizes == {0, MAX_FILE_SIZE, MAX_FILE_SIZE + 1}
FileBytes == {"empty", "corrupt", "jordan", "bob"}

\* a File of size 0 is one whose bytes are empty; the long documents are
\* read by the runs of FinalizeSpec only
Files ==
    {f \in [name : FileNames, size : FileSizes, type : FileTypes,
            bytes : FileBytes] : (f.size = 0) <=> (f.bytes = "empty")}

FormData == {Null} \cup {Some(f) : f \in Files}

\* messages carried by a failing storage or database call
ErrMsgs == {"e1", "e2"}
AlreadyExists == "The resource already exists"

\* a provider response: the answer may be missing or empty, the result list
\* may be missing
Answers == {Null, Some("An engineer.")}
TavilyResponses ==
    {resp \in [answer : Answers,
               results : {Null} \cup {Some(k) : k \in 0..MaxResults}] :
        resp.results = Null => resp.answer = Null}

VARIABLES
    now,          \* the clock Date.now() reads
    objects,      \* bucket "cvs": path -> [bytes, by]
    scans,        \* table scans: the row of id i is scans[i]
    scan_results, \* table scan_results, in insertion order
    pc,           \* per run: the await it is suspended at
    file,         \* per run: formData.get("file")
    client,       \* per run: createClient() has returned a client
    filePath,     \* per run
    scanError,    \* per run: the message of the failed scans insert
    scanId,       \* per run: scan.id, 0 before the insert
    extractedText,
    candidateName,
    searchQuery,
    tavilyResult,
    calls,        \* per run: the collaborator calls issued (and the read of
                  \* the credential), in order
    result,       \* per run: what the caller received
    zoneFile,     \* UploadZone: the state file
    isScanning,   \* UploadZone: the state isScanning
    scanResult,   \* UploadZone: the state scanResult
    rendered,     \* UploadZone: the state values its last render read
    handler       \* per activation of handleScan: where it is

vars ==
    << now, objects, scans, scan_results, pc, file, client,
       filePath, scanError, scanId, extractedText, candidateName, searchQuery,
       tavilyResult, calls, result,
       zoneFile, isScanning, scanResult, rendered, handler >>

\* UploadZone.tsx lines 16-18: the state of a component that has just been
\* mounted, and no activation of handleScan yet
ZoneMounted ==
    /\ zoneFile = Null
    /\ isScanning = FALSE
    /\ scanResult = Null
    /\ rendered = [file |-> Null, isScanning |-> FALSE, scanResult |-> Null]
    /\ handler = [h \in Runs |-> [pc |-> "idle", outcome |-> "none"]]

ZoneUnchanged ==
    UNCHANGED << zoneFile, isScanning, scanResult, rendered, handler >>

Pending == [tag |-> "pending", error |-> << "", "" >>, data |-> Null]
ReturnError(fixed, detail) ==
    [tag |-> "error", error |-> << fixed, detail >>, data |-> Null]
ReturnData(d) == [tag |-> "data", error |-> << "", "" >>, data |-> Some(d)]
\* the promise rejected: an exception left scanCv
Threw == [tag |-> "threw", error |-> << "", "" >>, data |-> Null]

Call(op, path, id, ok) == [op |-> op, path |-> path, id |-> id, ok |-> ok]

Init ==
    /\ now = 0
    /\ objects = << >>
    /\ scans = << >>
    /\ scan_results = << >>
    /\ pc = [r \in Runs |-> "idle"]
    /\ file = [r \in Runs |-> Null]
    /\ client = [r \in Runs |-> FALSE]
    /\ filePath = [r \in Runs |-> Null]
    /\ scanError = [r \in Runs |-> Null]
    /\ scanId = [r \in Runs |-> 0]
    /\ extractedText = [r \in Runs |-> Null]
    /\ candidateName = [r \in Runs |-> Null]
    /\ searchQuery = [r \in Runs |-> Null]
    /\ tavilyResult = [r \in Runs |-> Null]
    /\ calls = [r \in Runs |-> << >>]
    /\ result = [r \in Runs |-> Pending]
    /\ ZoneMounted

Return(r, res) ==
    /\ pc' = [pc EXCEPT ![r] = "done"]
    /\ result' = [result EXCEPT ![r] = res]

Goto(r, label) ==
    /\ pc' = [pc EXCEPT ![r] = label]
    /\ UNCHANGED result

Log(r, c) == calls' = [calls EXCEPT ![r] = Append(@, c)]

StoreUnchanged == UNCHANGED << objects, scans, scan_results >>
LocalsUnchanged ==
    UNCHANGED << filePath, scanError, scanId, extractedText, candidateName,
                 searchQuery, tavilyResult >>

ThePath(r) == TheValue(filePath[r])
TheFile(r) == TheValue(file[r])

(***************************************************************************)
(* src/actions/scanCv.ts                                                   *)
(***************************************************************************)

\* a variant of Validate without the size check
ValidateNoSizeCheck(fd) ==
    IF fd = Null THEN Some("No file provided")
    ELSE IF TheValue(fd).type # "application/pdf"
         THEN Some("Only PDF files are supported.")
    ELSE Null

\* lines 13-16: the validation, in the order of the code
Validate(fd) ==
    IF fd = Null THEN Some("No file provided")
    ELSE IF TheValue(fd).size > MAX_FILE_SIZE
         THEN Some("File too large. Maximum 10MB.")
    ELSE IF TheValue(fd).type # "application/pdf"
         THEN Some("Only PDF files are supported.")
    ELSE Null

\* lines 10-22: the call, up to the await of createClient()
Start(r) ==
    /\ pc[r] = "idle"
    /\ \E fd \in FormData :
         /\ file' = [file EXCEPT ![r] = fd]
         /\ IF Validate(fd) # Null
            THEN Return(r, ReturnError(TheValue(Validate(fd)), ""))
            ELSE Goto(r, "createClient")
    /\ StoreUnchanged
    /\ LocalsUnchanged
    /\ UNCHANGED << now, client, calls >>
    /\ ZoneUnchanged

\* lines 20-30: createClient() returns or throws; then the path is built from
\* the clock and the file name and the bytes are buffered
CreateClient(r) ==
    /\ pc[r] = "createClient"
    /\ \/ /\ Return(r, ReturnError("Failed to connect to database.", ""))
          /\ UNCHANGED << now, client, filePath >>
       \/ /\ client' = [client EXCEPT ![r] = TRUE]
          /\ \E t \in now..MaxClock :
               /\ now' = t
               /\ filePath' = [filePath EXCEPT ![r] = Some(<< t, TheFile(r).name >>)]
          /\ Goto(r, "upload")
    /\ StoreUnchanged
    /\ UNCHANGED << file, scanError, scanId, extractedText,
                    candidateName, searchQuery, tavilyResult, calls >>
    /\ ZoneUnchanged

\* a variant of Upload with upsert: an existing object is overwritten
UploadUpsert(r) ==
    /\ pc[r] = "upload"
    /\ \/ /\ objects' = [p \in DOMAIN objects \cup {ThePath(r)} |->
                           IF p = ThePath(r)
                           THEN [bytes |-> TheFile(r).bytes, by |-> r]
                           ELSE objects[p]]
          /\ Log(r, Call("upload", filePath[r], 0, TRUE))
          /\ Goto(r, "insert")
       \/ /\ \E m \in ErrMsgs :
               Return(r, ReturnError("Storage upload failed: ", m))
          /\ Log(r, Call("upload", filePath[r], 0, FALSE))
          /\ UNCHANGED objects
    /\ LocalsUnchanged
    /\ UNCHANGED << now, scans, scan_results, file, client >>
    /\ ZoneUnchanged

\* lines 32-40: storage.from("cvs").upload(filePath, buffer, {contentType});
\* without upsert an upload to an existing path is refused
Upload(r) ==
    /\ pc[r] = "upload"
    /\ \/ /\ ThePath(r) \notin DOMAIN objects
          /\ objects' = objects @@
                (ThePath(r) :> [bytes |-> TheFile(r).bytes, by |-> r])
          /\ Log(r, Call("upload", filePath[r], 0, TRUE))
          /\ Goto(r, "insert")
       \/ /\ \E m \in (IF ThePath(r) \in DOMAIN objects
                       THEN {AlreadyExists} ELSE ErrMsgs) :
               Return(r, ReturnError("Storage upload failed: ", m))
          /\ Log(r, Call("upload", filePath[r], 0, FALSE))
          /\ UNCHANGED objects
    /\ LocalsUnchanged
    /\ UNCHANGED << now, scans, scan_results, file, client >>
    /\ ZoneUnchanged


\* a variant of NewScan that leaves the status to the column default
NewScanDefaultStatus(r, id) ==
    [ id |-> id,
      file_name |-> TheFile(r).name,
      file_path |-> ThePath(r),
      file_size |-> TheFile(r).size,
      extracted_name |-> Null,
      extracted_text |-> Null,
      search_query |-> Null,
      summary |-> Null,
      status |-> "pending",
      error_message |-> Null ]

\* lines 45-50: the row the insert creates
NewScan(r, id) ==
    [ id |-> id,
      file_name |-> TheFile(r).name,
      file_path |-> ThePath(r),
      file_size |-> TheFile(r).size,
      extracted_name |-> Null,
      extracted_text |-> Null,
      search_query |-> Null,
      summary |-> Null,
      status |-> "processing",
      error_message |-> Null ]

\* lines 43-60: from("scans").insert({...}).select("*").single()
InsertScan(r) ==
    /\ pc[r] = "insert"
    /\ \/ /\ scans' = Append(scans, NewScan(r, Len(scans) + 1))
          /\ scanId' = [scanId EXCEPT ![r] = Len(scans) + 1]
          /\ Log(r, Call("insert", Null, Len(scans) + 1, TRUE))
          /\ Goto(r, "extract")
          /\ UNCHANGED scanError
       \/ /\ \E m \in ErrMsgs : scanError' = [scanError EXCEPT ![r] = Some(m)]
          /\ Log(r, Call("insert", Null, 0, FALSE))
          /\ Goto(r, "remove")
          /\ UNCHANGED << scans, scanId >>
    /\ UNCHANGED << now, objects, scan_results, file, client,
                    filePath, extractedText, candidateName, searchQuery,
                    tavilyResult >>
    /\ ZoneUnchanged

\* line 57: the paths handed to storage.from("cvs").remove([...])
RemoveTargets(r) == {ThePath(r)}



\* a variant of Remove in which a failed cleanup becomes the run's error
RemoveMasking(r) ==
    /\ pc[r] = "remove"
    /\ \/ /\ objects' = [p \in DOMAIN objects \ RemoveTargets(r) |-> objects[p]]
          /\ Log(r, Call("remove", filePath[r], 0, TRUE))
          /\ Return(r, ReturnError("Failed to create scan record: ",
                                   TheValue(scanError[r])))
       \/ /\ UNCHANGED objects
          /\ Log(r, Call("remove", filePath[r], 0, FALSE))
          /\ \E m \in ErrMsgs :
               Return(r, ReturnError("Storage cleanup failed: ", m))
    /\ LocalsUnchanged
    /\ UNCHANGED << now, scans, scan_results, file, client >>
    /\ ZoneUnchanged

\* a variant of Remove that returns the error without the cleanup
RemoveSkipped(r) ==
    /\ pc[r] = "remove"
    /\ Return(r, ReturnError("Failed to create scan record: ",
                             TheValue(scanError[r])))
    /\ LocalsUnchanged
    /\ UNCHANGED << now, objects, scans, scan_results, file, client, calls >>
    /\ ZoneUnchanged

\* lines 54-59: the cleanup of the uploaded file; its outcome is not looked at
Remove(r) ==
    /\ pc[r] = "remove"
    /\ \/ /\ objects' = [p \in DOMAIN objects \ RemoveTargets(r) |-> objects[p]]
          /\ \E p \in RemoveTargets(r) : Log(r, Call("remove", Some(p), 0, TRUE))
       \/ /\ UNCHANGED objects
          /\ \E p \in RemoveTargets(r) : Log(r, Call("remove", Some(p), 0, FALSE))
    /\ Return(r, ReturnError("Failed to create scan record: ",
                             TheValue(scanError[r])))
    /\ LocalsUnchanged
    /\ UNCHANGED << now, scans, scan_results, file, client >>
    /\ ZoneUnchanged

\* a variant of Extract that carries on with an empty text when the document
\* cannot be read
ExtractContinuing(r) ==
    /\ pc[r] = "extract"
    /\ LET text == IF Readable(TheFile(r).bytes)
                   THEN extractTextFromPdf(TheFile(r).bytes) ELSE << >>
           name == extractCandidateName(text)
       IN /\ extractedText' = [extractedText EXCEPT ![r] = Some(text)]
          /\ candidateName' = [candidateName EXCEPT ![r] = name]
          /\ searchQuery' = [searchQuery EXCEPT ![r] =
                               Some(buildSearchQuery(text, name))]
          /\ Log(r, Call("extract", Null, 0, Readable(TheFile(r).bytes)))
          /\ Goto(r, "search")
    /\ StoreUnchanged
    /\ UNCHANGED << now, file, client, filePath, scanError, scanId,
                    tavilyResult >>
    /\ ZoneUnchanged

\* lines 63-73: extractTextFromPdf(buffer), then the name and the query
Extract(r) ==
    /\ pc[r] = "extract"
    /\ IF Readable(TheFile(r).bytes)
       THEN LET text == extractTextFromPdf(TheFile(r).bytes)
                name == extractCandidateName(text)
            IN /\ extractedText' = [extractedText EXCEPT ![r] = Some(text)]
               /\ candidateName' = [candidateName EXCEPT ![r] = name]
               /\ searchQuery' = [searchQuery EXCEPT ![r] =
                                    Some(buildSearchQuery(text, name))]
               /\ Log(r, Call("extract", Null, 0, TRUE))
               /\ Goto(r, "search")
       ELSE /\ Log(r, Call("extract", Null, 0, FALSE))
            /\ Goto(r, "markParseFailed")
            /\ UNCHANGED << extractedText, candidateName, searchQuery >>
    /\ StoreUnchanged
    /\ UNCHANGED << now, file, client, filePath, scanError, scanId,
                    tavilyResult >>
    /\ ZoneUnchanged


\* a variant of EqId without the filter: the update reaches every row
EqIdUnfiltered(table, id) == DOMAIN table

\* from("scans").update(...).eq("id", id): the rows the filter selects
EqId(table, id) == {i \in DOMAIN table : table[i].id = id}

\* a variant of MarkFailed that sets the status and leaves error_message
MarkFailedStatusOnly(r, label, message, shown) ==
    /\ pc[r] = label
    /\ \/ /\ scans' = [i \in DOMAIN scans |->
                        IF i \in EqId(scans, scanId[r])
                        THEN [scans[i] EXCEPT !.status = "failed"]
                        ELSE scans[i]]
          /\ Log(r, Call("update", Null, scanId[r], TRUE))
       \/ /\ UNCHANGED scans
          /\ Log(r, Call("update", Null, scanId[r], FALSE))
    /\ Return(r, ReturnError(shown, ""))
    /\ LocalsUnchanged
    /\ UNCHANGED << now, objects, scan_results, file, client >>
    /\ ZoneUnchanged

\* lines 68-69 and 81-82: the update to 'failed'; its outcome is not looked at
MarkFailed(r, label, message, shown) ==
    /\ pc[r] = label
    /\ \/ /\ scans' = [i \in DOMAIN scans |->
                        IF i \in EqId(scans, scanId[r])
                        THEN [scans[i] EXCEPT !.status = "failed",
                                              !.error_message = Some(message)]
                        ELSE scans[i]]
          /\ Log(r, Call("update", Null, scanId[r], TRUE))
       \/ /\ UNCHANGED scans
          /\ Log(r, Call("update", Null, scanId[r], FALSE))
    /\ Return(r, ReturnError(shown, ""))
    /\ LocalsUnchanged
    /\ UNCHANGED << now, objects, scan_results, file, client >>
    /\ ZoneUnchanged


\* a variant of MarkParseFailed that also deletes the uploaded object
MarkParseFailedCleaning(r) ==
    /\ pc[r] = "markParseFailed"
    /\ scans' = [i \in DOMAIN scans |->
                   IF i \in EqId(scans, scanId[r])
                   THEN [scans[i] EXCEPT !.status = "failed",
                                         !.error_message = Some("PDF parsing failed")]
                   ELSE scans[i]]
    /\ objects' = [p \in DOMAIN objects \ {ThePath(r)} |-> objects[p]]
    /\ calls' = [calls EXCEPT ![r] =
                   @ \o << Call("update", Null, scanId[r], TRUE),
                           Call("remove", filePath[r], 0, TRUE) >>]
    /\ Return(r, ReturnError(
                  "Failed to read PDF content. Make sure it's a valid PDF.", ""))
    /\ LocalsUnchanged
    /\ UNCHANGED << now, scan_results, file, client >>
    /\ ZoneUnchanged

\* a variant of MarkParseFailed that returns without recording the failure
MarkParseFailedSkipped(r) ==
    /\ pc[r] = "markParseFailed"
    /\ Return(r, ReturnError(
                  "Failed to read PDF content. Make sure it's a valid PDF.", ""))
    /\ LocalsUnchanged
    /\ UNCHANGED << now, objects, scans, scan_results, file, client, calls >>
    /\ ZoneUnchanged

MarkParseFailed(r) ==
    MarkFailed(r, "markParseFailed", "PDF parsing failed",
               "Failed to read PDF content. Make sure it's a valid PDF.")



\* a variant of MarkSearchFailed that repeats a refused update
MarkSearchFailedRetrying(r) ==
    /\ pc[r] = "markSearchFailed"
    /\ \/ /\ scans' = [i \in DOMAIN scans |->
                        IF i \in EqId(scans, scanId[r])
                        THEN [scans[i] EXCEPT
                                !.status = "failed",
                                !.error_message = Some("Web search failed")]
                        ELSE scans[i]]
          /\ Log(r, Call("update", Null, scanId[r], TRUE))
       \/ /\ scans' = [i \in DOMAIN scans |->
                        IF i \in EqId(scans, scanId[r])
                        THEN [scans[i] EXCEPT
                                !.status = "failed",
                                !.error_message = Some("Web search failed")]
                        ELSE scans[i]]
          /\ calls' = [calls EXCEPT ![r] =
                         @ \o << Call("update", Null, scanId[r], FALSE),
                                 Call("update", Null, scanId[r], TRUE) >>]
    /\ Return(r, ReturnError("Web search failed. Please try again.", ""))
    /\ LocalsUnchanged
    /\ UNCHANGED << now, objects, scan_results, file, client >>
    /\ ZoneUnchanged

\* a variant of MarkSearchFailed that rolls the upload back
MarkSearchFailedRollback(r) ==
    /\ pc[r] = "markSearchFailed"
    /\ scans' = [i \in DOMAIN scans |->
                   IF i \in EqId(scans, scanId[r])
                   THEN [scans[i] EXCEPT !.status = "failed",
                                         !.error_message = Some("Web search failed")]
                   ELSE scans[i]]
    /\ objects' = [p \in DOMAIN objects \ {ThePath(r)} |-> objects[p]]
    /\ Log(r, Call("update", Null, scanId[r], TRUE))
    /\ Return(r, ReturnError("Web search failed. Please try again.", ""))
    /\ LocalsUnchanged
    /\ UNCHANGED << now, scan_results, file, client >>
    /\ ZoneUnchanged

MarkSearchFailed(r) ==
    MarkFailed(r, "markSearchFailed", "Web search failed",
               "Web search failed. Please try again.")

(***************************************************************************)
(* src/lib/tavily.ts and lines 76-99 of scanCv                             *)
(***************************************************************************)


\* a variant of ResultRows that takes the id of the next scan
ResultRowsWrongScan(id, k) == [i \in 1..k |-> [scan_id |-> id + 1, rank |-> i]]

\* a variant of ResultRows that loses the first item
ResultRowsDropFirst(id, k) ==
    [i \in 1..(k - 1) |-> [scan_id |-> id, rank |-> i + 1]]

\* lines 86-92: tavilyResult.results.map(...), one row per item, in order
ResultRows(id, k) == [i \in 1..k |-> [scan_id |-> id, rank |-> i]]

\* a variant of Search that calls the provider without looking at the
\* credential first
SearchWithoutKeyCheck(r) ==
    /\ pc[r] = "search"
    /\ \/ /\ calls' = [calls EXCEPT ![r] =
                         @ \o << Call("apiKey", Null, 0, FALSE),
                                 Call("fetch", Null, 0, FALSE),
                                 Call("search", Null, 0, FALSE) >>]
          /\ Goto(r, "markSearchFailed")
          /\ UNCHANGED tavilyResult
       \/ /\ calls' = [calls EXCEPT ![r] =
                         @ \o << Call("apiKey", Null, 0, TRUE),
                                 Call("fetch", Null, 0, FALSE),
                                 Call("search", Null, 0, FALSE) >>]
          /\ Goto(r, "markSearchFailed")
          /\ UNCHANGED tavilyResult
       \/ /\ \E resp \in TavilyResponses :
               /\ tavilyResult' = [tavilyResult EXCEPT ![r] = Some(resp)]
               /\ IF resp.results = Null
                  THEN Return(r, Threw)
                  ELSE IF TheValue(resp.results) > 0
                       THEN Goto(r, "insertResults")
                       ELSE Goto(r, "update")
          /\ calls' = [calls EXCEPT ![r] =
                         @ \o << Call("apiKey", Null, 0, TRUE),
                                 Call("fetch", Null, 0, TRUE),
                                 Call("search", Null, 0, TRUE) >>]
    /\ StoreUnchanged
    /\ UNCHANGED << now, file, client, filePath, scanError, scanId,
                    extractedText, candidateName, searchQuery >>
    /\ ZoneUnchanged

\* lines 76-94: searchTavily(searchQuery).  It reads the credential and
\* throws without one (before any fetch); it throws on a transport error, on
\* a non-success status and on a body that is not JSON (the fetch is logged
\* as failed); otherwise it returns the body as it is.
Search(r) ==
    /\ pc[r] = "search"
    /\ \/ /\ calls' = [calls EXCEPT ![r] =
                         @ \o << Call("apiKey", Null, 0, FALSE),
                                 Call("search", Null, 0, FALSE) >>]
          /\ Goto(r, "markSearchFailed")
          /\ UNCHANGED tavilyResult
       \/ /\ calls' = [calls EXCEPT ![r] =
                         @ \o << Call("apiKey", Null, 0, TRUE),
                                 Call("fetch", Null, 0, FALSE),
                                 Call("search", Null, 0, FALSE) >>]
          /\ Goto(r, "markSearchFailed")
          /\ UNCHANGED tavilyResult
       \/ /\ \E resp \in TavilyResponses :
               /\ tavilyResult' = [tavilyResult EXCEPT ![r] = Some(resp)]
               /\ IF resp.results = Null
                  THEN Return(r, Threw)
                  ELSE IF TheValue(resp.results) > 0
                       THEN Goto(r, "insertResults")
                       ELSE Goto(r, "update")
          /\ calls' = [calls EXCEPT ![r] =
                         @ \o << Call("apiKey", Null, 0, TRUE),
                                 Call("fetch", Null, 0, TRUE),
                                 Call("search", Null, 0, TRUE) >>]
    /\ StoreUnchanged
    /\ UNCHANGED << now, file, client, filePath, scanError, scanId,
                    extractedText, candidateName, searchQuery >>
    /\ ZoneUnchanged


\* a variant of InsertResults that gives up when the insert fails
InsertResultsAborting(r) ==
    /\ pc[r] = "insertResults"
    /\ \/ /\ scan_results' = scan_results \o
                ResultRows(scanId[r], TheValue(TheValue(tavilyResult[r]).results))
          /\ Log(r, Call("insertResults", Null, scanId[r], TRUE))
          /\ Goto(r, "update")
       \/ /\ UNCHANGED scan_results
          /\ Log(r, Call("insertResults", Null, scanId[r], FALSE))
          /\ Return(r, ReturnError("Failed to save scan results.", ""))
    /\ LocalsUnchanged
    /\ UNCHANGED << now, objects, scans, file, client >>
    /\ ZoneUnchanged

\* lines 94-99: one bulk insert; a failure is logged and nothing else
InsertResults(r) ==
    /\ pc[r] = "insertResults"
    /\ \/ /\ scan_results' = scan_results \o
                ResultRows(scanId[r], TheValue(TheValue(tavilyResult[r]).results))
          /\ Log(r, Call("insertResults", Null, scanId[r], TRUE))
       \/ /\ UNCHANGED scan_results
          /\ Log(r, Call("insertResults", Null, scanId[r], FALSE))
    /\ Goto(r, "update")
    /\ LocalsUnchanged
    /\ UNCHANGED << now, objects, scans, file, client >>
    /\ ZoneUnchanged

TruthyStr(opt) == opt # Null /\ opt # Some("")

\* a variant of Completed that stores the whole text
CompletedWholeText(row, r) ==
    [row EXCEPT
       !.extracted_name = candidateName[r],
       !.extracted_text = extractedText[r],
       !.search_query = searchQuery[r],
       !.summary = IF TruthyStr(TheValue(tavilyResult[r]).answer)
                   THEN TheValue(tavilyResult[r]).answer
                   ELSE Some("No summary available."),
       !.status = "completed"]

\* lines 104-110: the columns of the final update
Completed(row, r) ==
    [row EXCEPT
       !.extracted_name = candidateName[r],
       !.extracted_text = Some(Slice0(TheValue(extractedText[r]), StoredTextLen)),
       !.search_query = searchQuery[r],
       !.summary = IF TruthyStr(TheValue(tavilyResult[r]).answer)
                   THEN TheValue(tavilyResult[r]).answer
                   ELSE Some("No summary available."),
       !.status = "completed"]

\* line 112: select("*, scan_results(*)"): the row with the rows that
\* reference it
WithResults(row, results) ==
    [scan |-> row,
     scan_results |-> SelectSeq(results, LAMBDA x : x.scan_id = row.id)]


\* a variant of UpdateScan in which the update is applied and the row it
\* selects is not handed back
UpdateScanLosingRow(r) ==
    /\ pc[r] = "update"
    /\ \/ /\ scans' = [i \in DOMAIN scans |->
                         IF i \in EqId(scans, scanId[r])
                         THEN Completed(scans[i], r)
                         ELSE scans[i]]
          /\ Log(r, Call("update", Null, scanId[r], TRUE))
          /\ \/ Return(r, ReturnData(WithResults(scans'[scanId[r]], scan_results)))
             \/ Return(r, ReturnError("Failed to save scan results.", ""))
       \/ /\ UNCHANGED scans
          /\ Log(r, Call("update", Null, scanId[r], FALSE))
          /\ Return(r, ReturnError("Failed to save scan results.", ""))
    /\ LocalsUnchanged
    /\ UNCHANGED << now, objects, scan_results, file, client >>
    /\ ZoneUnchanged

\* a variant of UpdateScan that does not look at the outcome of the update
UpdateScanUnchecked(r) ==
    /\ pc[r] = "update"
    /\ \/ /\ scans' = [i \in DOMAIN scans |->
                         IF i \in EqId(scans, scanId[r])
                         THEN Completed(scans[i], r)
                         ELSE scans[i]]
          /\ Log(r, Call("update", Null, scanId[r], TRUE))
          /\ Return(r, ReturnData(WithResults(scans'[scanId[r]], scan_results)))
       \/ /\ UNCHANGED scans
          /\ Log(r, Call("update", Null, scanId[r], FALSE))
          /\ Return(r, ReturnData(WithResults(scans[scanId[r]], scan_results)))
    /\ LocalsUnchanged
    /\ UNCHANGED << now, objects, scan_results, file, client >>
    /\ ZoneUnchanged

\* lines 101-121: the final update, and what scanCv returns
UpdateScan(r) ==
    /\ pc[r] = "update"
    /\ \/ /\ scans' = [i \in DOMAIN scans |->
                         IF i \in EqId(scans, scanId[r])
                         THEN Completed(scans[i], r)
                         ELSE scans[i]]
          /\ Log(r, Call("update", Null, scanId[r], TRUE))
          /\ Return(r, ReturnData(WithResults(scans'[scanId[r]], scan_results)))
       \/ /\ UNCHANGED scans
          /\ Log(r, Call("update", Null, scanId[r], FALSE))
          /\ Return(r, ReturnError("Failed to save scan results.", ""))
    /\ LocalsUnchanged
    /\ UNCHANGED << now, objects, scan_results, file, client >>
    /\ ZoneUnchanged

Next ==
    \E r \in Runs :
        \/ Start(r)
        \/ CreateClient(r)
        \/ Upload(r)
        \/ InsertScan(r)
        \/ Remove(r)
        \/ Extract(r)
        \/ MarkParseFailed(r)
        \/ Search(r)
        \/ MarkSearchFailed(r)
        \/ InsertResults(r)
        \/ UpdateScan(r)

Spec == Init /\ [][Next]_vars

(***************************************************************************)
(* The two pure functions of src/lib/pdf.ts applied to a bounded set of    *)
(* texts, as lines 72-73 of scanCv apply them to the extracted text: run 1 *)
(* holds the text (and, when only the query is built, a given name).       *)
(***************************************************************************)
Repeat(c, n) == [i \in 1..n |-> c]

PadTo(s, n) == IF Len(s) >= n THEN s ELSE s \o Repeat("o", n - Len(s))

\* first lines: names, and lines holding the markers the pattern is about
CoreLines ==
    { <<"J","o","r","d","a","n"," ","L","e","e">>,
      <<"B","o","b"," ","D","o","n","g">>,
      <<"B","o","b"," ","c","v">>,
      <<"b","o","b","@","d","o","g">>,
      <<"H","T","T","P">>,
      <<"w","w","w">>,
      <<"R","e","s","u","m","e">>,
      <<"C","u","r","r","i","c","u","l","u","m">>,
      <<"a","|","b">> }

\* what precedes the first non-empty line
Leads == { << >>, << " " >>, << "\n", " ", "\t", "\n" >> }

\* what follows the first line
Tails ==
    { << >>,
      << "\n" >> \o <<"l","i","n","k","e","d","i","n">>,
      << "\n" >> \o Repeat("x", QuerySnippetLen) \o <<"g","i","t","h","u","b">> }

\* each first line as it is and padded to one below and to the length limit
FnTexts ==
    { << >>, << " ", "\n", " " >> } \cup
    { lead \o PadTo(core, n) \o tail :
        lead \in Leads, core \in CoreLines,
        n \in {0, NameMaxLen - 1, NameMaxLen}, tail \in Tails }

\* names handed to buildSearchQuery directly
FnNames == { Null, Some(<< >>), Some(<<"B","o","b"," ","D","o","n","g">>) }

FnInit ==
    /\ now = 0
    /\ objects = << >>
    /\ scans = << >>
    /\ scan_results = << >>
    /\ file = [r \in Runs |-> Null]
    /\ client = [r \in Runs |-> FALSE]
    /\ filePath = [r \in Runs |-> Null]
    /\ scanError = [r \in Runs |-> Null]
    /\ scanId = [r \in Runs |-> 0]
    /\ searchQuery = [r \in Runs |-> Null]
    /\ tavilyResult = [r \in Runs |-> Null]
    /\ calls = [r \in Runs |-> << >>]
    /\ result = [r \in Runs |-> Pending]
    /\ ZoneMounted
    /\ \E t \in FnTexts :
         extractedText = [r \in Runs |-> IF r = 1 THEN Some(t) ELSE Null]
    /\ \/ /\ pc = [r \in Runs |-> IF r = 1 THEN "applyName" ELSE "idle"]
          /\ candidateName = [r \in Runs |-> Null]
       \/ /\ pc = [r \in Runs |-> IF r = 1 THEN "applyQuery" ELSE "idle"]
          /\ \E n \in FnNames :
               candidateName = [r \in Runs |-> IF r = 1 THEN n ELSE Null]

\* line 72: const candidateName = extractCandidateName(extractedText)
ApplyExtractCandidateName ==
    /\ pc[1] = "applyName"
    /\ candidateName' = [candidateName EXCEPT ![1] =
                           extractCandidateName(TheValue(extractedText[1]))]
    /\ pc' = [pc EXCEPT ![1] = "nameApplied"]
    /\ StoreUnchanged
    /\ UNCHANGED << now, file, client, filePath, scanError, scanId,
                    extractedText, searchQuery, tavilyResult, calls, result >>
    /\ ZoneUnchanged

\* line 73: const searchQuery = buildSearchQuery(extractedText, candidateName)
ApplyBuildSearchQuery ==
    /\ pc[1] \in {"nameApplied", "applyQuery"}
    /\ searchQuery' = [searchQuery EXCEPT ![1] =
                         Some(buildSearchQuery(TheValue(extractedText[1]),
                                               candidateName[1]))]
    /\ pc' = [pc EXCEPT ![1] =
                IF pc[1] = "nameApplied" THEN "bothApplied" ELSE "queryApplied"]
    /\ StoreUnchanged
    /\ UNCHANGED << now, file, client, filePath, scanError, scanId,
                    extractedText, candidateName, tavilyResult, calls, result >>
    /\ ZoneUnchanged

FnNext == ApplyExtractCandidateName \/ ApplyBuildSearchQuery

FnSpec == FnInit /\ [][FnNext]_vars

(***************************************************************************)
(* Lines 94-121 of scanCv, from the states in which run 1 has uploaded a   *)
(* document, inserted its Scan row, extracted the text and received the    *)
(* provider's response: the documents include the long ones and the        *)
(* responses include an empty answer.                                      *)
(***************************************************************************)
FinalizeFiles ==
    [name : FileNames, size : {MAX_FILE_SIZE}, type : {"application/pdf"},
     bytes : {"jordan", "bob"} \cup LongDocuments]

\* responses that carry a result list
FinalizeResponses ==
    [answer : Answers \cup {Some("")},
     results : {Some(k) : k \in 0..MaxResults}]

FinalizeInit ==
    /\ ZoneMounted
    /\ now = 0
    /\ scan_results = << >>
    /\ client = [r \in Runs |-> r = 1]
    /\ scanError = [r \in Runs |-> Null]
    /\ scanId = [r \in Runs |-> IF r = 1 THEN 1 ELSE 0]
    /\ result = [r \in Runs |-> Pending]
    /\ \E f \in FinalizeFiles :
         /\ file = [r \in Runs |-> IF r = 1 THEN Some(f) ELSE Null]
         /\ filePath =
              [r \in Runs |-> IF r = 1 THEN Some(<< 0, f.name >>) ELSE Null]
         /\ objects = (<< 0, f.name >> :> [bytes |-> f.bytes, by |-> 1])
         /\ scans = << NewScan(1, 1) >>
         /\ LET text == extractTextFromPdf(f.bytes)
                name == extractCandidateName(text)
            IN /\ extractedText =
                    [r \in Runs |-> IF r = 1 THEN Some(text) ELSE Null]
               /\ candidateName = [r \in Runs |-> IF r = 1 THEN name ELSE Null]
               /\ searchQuery =
                    [r \in Runs |->
                        IF r = 1 THEN Some(buildSearchQuery(text, name))
                        ELSE Null]
         /\ calls =
              [r \in Runs |->
                  IF r = 1
                  THEN << Call("upload", Some(<< 0, f.name >>), 0, TRUE),
                          Call("insert", Null, 1, TRUE),
                          Call("extract", Null, 0, TRUE),
                          Call("apiKey", Null, 0, TRUE),
                          Call("fetch", Null, 0, TRUE),
                          Call("search", Null, 0, TRUE) >>
                  ELSE << >>]
    /\ \E resp \in FinalizeResponses :
         /\ tavilyResult = [r \in Runs |-> IF r = 1 THEN Some(resp) ELSE Null]
         /\ pc = [r \in Runs |->
                    IF r # 1 THEN "idle"
                    ELSE IF TheValue(resp.results) > 0 THEN "insertResults"
                    ELSE "update"]

FinalizeNext == \E r \in Runs : InsertResults(r) \/ UpdateScan(r)

FinalizeSpec == FinalizeInit /\ [][FinalizeNext]_vars

(***************************************************************************)
(* src/components/upload/UploadZone.tsx.  The handlers of the buttons are  *)
(* the closures of the last render: they read the state values of that     *)
(* render, and the state the setters write is read by the next render.     *)
(* The scanCv call of an activation is seen from the client: it is in      *)
(* flight, then it settles with data, with an error or by rejecting.       *)
(***************************************************************************)
ScanCvUnchanged ==
    UNCHANGED << now, objects, scans, scan_results, pc, file, client,
                 filePath, scanError, scanId, extractedText, candidateName,
                 searchQuery, tavilyResult, calls, result >>

\* lines 63-77: what the last render returned
View ==
    IF rendered.isScanning THEN "ScanSkeleton"
    ELSE IF rendered.scanResult # Null THEN "ScanResults"
    ELSE IF rendered.file # Null THEN "UploadedFile"
    ELSE "DropArea"

\* React renders the component again after a state change
Render ==
    /\ rendered # [file |-> zoneFile, isScanning |-> isScanning,
                   scanResult |-> scanResult]
    /\ rendered' = [file |-> zoneFile, isScanning |-> isScanning,
                    scanResult |-> scanResult]
    /\ UNCHANGED << zoneFile, isScanning, scanResult, handler >>
    /\ ScanCvUnchanged

\* lines 21-34: handleFile(selectedFile), from the drop area
HandleFile ==
    /\ View = "DropArea"
    /\ \E selectedFile \in Files :
         IF selectedFile.type # "application/pdf"
              \/ selectedFile.size > MAX_FILE_SIZE
         THEN UNCHANGED << zoneFile, scanResult >>
         ELSE /\ zoneFile' = Some(selectedFile)
              /\ scanResult' = Null
    /\ UNCHANGED << isScanning, rendered, handler >>
    /\ ScanCvUnchanged

\* lines 36-44: the h-th activation of handleScan, up to its await; the
\* button that activates it is in the view of an uploaded file, enabled
\* (UploadedFile.tsx:38-42)
HandleScan(h) ==
    /\ View = "UploadedFile"
    /\ handler[h].pc = "idle"
    /\ \A k \in Runs : k < h => handler[k].pc # "idle"
    /\ IF rendered.file = Null \/ rendered.isScanning
       THEN UNCHANGED << isScanning, handler >>
       ELSE /\ isScanning' = TRUE
            /\ handler' = [handler EXCEPT ![h].pc = "awaiting"]
    /\ UNCHANGED << zoneFile, scanResult, rendered >>
    /\ ScanCvUnchanged

\* the scanCv call of activation h settles
Settle(h) ==
    /\ handler[h].pc = "awaiting"
    /\ \E o \in {"data", "error", "rejected"} :
         handler' = [handler EXCEPT ![h] = [pc |-> "settled", outcome |-> o]]
    /\ UNCHANGED << zoneFile, isScanning, scanResult, rendered >>
    /\ ScanCvUnchanged

\* lines 44-55: handleScan after its await; a rejection leaves handleScan
\* at line 44
Resume(h) ==
    /\ handler[h].pc = "settled"
    /\ handler' = [handler EXCEPT ![h].pc = "done"]
    /\ IF handler[h].outcome = "rejected"
       THEN UNCHANGED << isScanning, scanResult >>
       ELSE /\ isScanning' = FALSE
            /\ scanResult' = IF handler[h].outcome = "data"
                             THEN Some("scan") ELSE scanResult
    /\ UNCHANGED << zoneFile, rendered >>
    /\ ScanCvUnchanged

\* lines 57-61: resetAll, from the results view and from the clear button
ResetAll ==
    /\ View \in {"ScanResults", "UploadedFile"}
    /\ zoneFile' = Null
    /\ scanResult' = Null
    /\ UNCHANGED << isScanning, rendered, handler >>
    /\ ScanCvUnchanged

ZoneNext ==
    \/ Render
    \/ HandleFile
    \/ ResetAll
    \/ \E h \in Runs : HandleScan(h) \/ Settle(h) \/ Resume(h)

\* the continuation of a settled await runs, and a changed state is rendered
ZoneSpec ==
    /\ Init
    /\ [][ZoneNext]_vars
    /\ WF_vars(Render)
    /\ \A h \in Runs : WF_vars(Resume(h))

(***************************************************************************)
(* The claims.                                                             *)
(***************************************************************************)
HasCall(r, op, ok) ==
    \E i \in 1..Len(calls[r]) : calls[r][i].op = op /\ calls[r][i].ok = ok

LastCall(r) == calls[r][Len(calls[r])]

\* run r returns (or throws) in this step
Returning(r) == pc[r] # "done" /\ pc'[r] = "done"

RowOf(r) == scans[scanId[r]]

ResultsOf(id) == {i \in DOMAIN scan_results : scan_results[i].scan_id = id}

Referenced(table, p) == \E i \in DOMAIN table : table[i].file_path = p

InsertFailedAfterUpload(r) ==
    HasCall(r, "upload", TRUE) /\ HasCall(r, "insert", FALSE)

\* C1, as stated: when the scans insert fails after the upload succeeded, the
\* run deletes exactly the path it wrote, and as it returns no object is at
\* that path and no Scan row references the path, whatever the delete call
\* answered.
C1_NoOrphanWhateverDelete ==
    [][\A r \in Runs :
         (Returning(r) /\ InsertFailedAfterUpload(r)) =>
            /\ calls'[r] = Append(calls[r], calls'[r][Len(calls'[r])])
            /\ calls'[r][Len(calls'[r])].op = "remove"
            /\ calls'[r][Len(calls'[r])].path = filePath[r]
            /\ ThePath(r) \notin DOMAIN objects'
            /\ ~Referenced(scans', ThePath(r))]_vars

\* C1, amended: when the scans insert fails after the upload succeeded, the
\* run issues one delete of exactly the path it wrote before it returns; as
\* it returns no Scan row references that path, and the object is gone if
\* the delete succeeded and is still in the store if the delete failed.
C1_CompensationBestEffort ==
    [][\A r \in Runs :
         (Returning(r) /\ InsertFailedAfterUpload(r)) =>
            /\ calls'[r] = Append(calls[r], calls'[r][Len(calls'[r])])
            /\ calls'[r][Len(calls'[r])].op = "remove"
            /\ calls'[r][Len(calls'[r])].path = filePath[r]
            /\ calls'[r][Len(calls'[r])].ok <=> ThePath(r) \notin DOMAIN objects'
            /\ ~Referenced(scans', ThePath(r))
            /\ result'[r].tag = "error"]_vars

C1_Witness ==
    \E r \in Runs :
        /\ pc[r] = "done"
        /\ InsertFailedAfterUpload(r)
        /\ LastCall(r) = Call("remove", filePath[r], 0, TRUE)
        /\ ThePath(r) \notin DOMAIN objects

ExtractionFailed(r) == HasCall(r, "extract", FALSE)

\* C2, as stated: after a failed extraction the returned run's Scan row is
\* 'failed' with the fixed message, has no extracted text and no ScanResult
\* rows, the object is still at the row's file_path, and the caller got an
\* error.
C2_ExtractionFailureRecorded ==
    \A r \in Runs :
        (pc[r] = "done" /\ ExtractionFailed(r)) =>
            /\ RowOf(r).status = "failed"
            /\ RowOf(r).error_message = Some("PDF parsing failed")
            /\ RowOf(r).extracted_text = Null
            /\ ResultsOf(scanId[r]) = {}
            /\ RowOf(r).file_path \in DOMAIN objects
            /\ result[r].tag = "error"

\* C2, amended: after a failed extraction the returned run's Scan row has no
\* extracted text and no ScanResult rows, the object is still at the row's
\* file_path and the caller got the fixed error; the row is 'failed' with
\* the fixed message when the update recording the failure succeeded, and
\* is left 'processing' with a null error_message when that update failed.
C2_ExtractionFailureRecordedIfUpdateOk ==
    \A r \in Runs :
        (pc[r] = "done" /\ ExtractionFailed(r)) =>
            /\ LastCall(r).op = "update"
            /\ LastCall(r).ok =>
                 /\ RowOf(r).status = "failed"
                 /\ RowOf(r).error_message = Some("PDF parsing failed")
            /\ ~LastCall(r).ok =>
                 /\ RowOf(r).status = "processing"
                 /\ RowOf(r).error_message = Null
            /\ RowOf(r).extracted_text = Null
            /\ ResultsOf(scanId[r]) = {}
            /\ RowOf(r).file_path = ThePath(r)
            /\ RowOf(r).file_path \in DOMAIN objects
            /\ result[r] = ReturnError(
                 "Failed to read PDF content. Make sure it's a valid PDF.", "")

C2_Witness ==
    \E r \in Runs :
        /\ pc[r] = "done"
        /\ ExtractionFailed(r)
        /\ LastCall(r) = Call("update", Null, scanId[r], TRUE)
        /\ RowOf(r).status = "failed"
        /\ TheFile(r).bytes = "corrupt"

EnrichmentFailed(r) == HasCall(r, "search", FALSE)

\* C3, as stated: after a failed enrichment call the returned run's Scan row
\* is 'failed' with the fixed message, row and object are retained, no
\* ScanResult row was inserted, and the caller got an error.
C3_EnrichmentFailureRecorded ==
    \A r \in Runs :
        (pc[r] = "done" /\ EnrichmentFailed(r)) =>
            /\ RowOf(r).status = "failed"
            /\ RowOf(r).error_message = Some("Web search failed")
            /\ RowOf(r).file_path \in DOMAIN objects
            /\ ResultsOf(scanId[r]) = {}
            /\ result[r].tag = "error"

\* C3, amended: after a failed enrichment call (no credential, or a failed
\* provider call) the returned run's Scan row and object are retained, no
\* ScanResult row was inserted and the caller got the fixed error; the row
\* is 'failed' with the fixed message when the update recording the failure
\* succeeded, and is left 'processing' with a null error_message when that
\* update failed.
C3_EnrichmentFailureRecordedIfUpdateOk ==
    \A r \in Runs :
        (pc[r] = "done" /\ EnrichmentFailed(r)) =>
            /\ LastCall(r).op = "update"
            /\ LastCall(r).ok =>
                 /\ RowOf(r).status = "failed"
                 /\ RowOf(r).error_message = Some("Web search failed")
            /\ ~LastCall(r).ok =>
                 /\ RowOf(r).status = "processing"
                 /\ RowOf(r).error_message = Null
            /\ RowOf(r).file_path = ThePath(r)
            /\ RowOf(r).file_path \in DOMAIN objects
            /\ ResultsOf(scanId[r]) = {}
            /\ ~HasCall(r, "insertResults", TRUE)
            /\ ~HasCall(r, "insertResults", FALSE)
            /\ result[r] = ReturnError("Web search failed. Please try again.", "")

C3_Witness ==
    \E r \in Runs :
        /\ pc[r] = "done"
        /\ EnrichmentFailed(r)
        /\ HasCall(r, "fetch", FALSE)
        /\ LastCall(r) = Call("update", Null, scanId[r], TRUE)
        /\ RowOf(r).status = "failed"

\* the inputs C4 is about
WrongTypeOrTooLarge(fd) ==
    /\ fd # Null
    /\ \/ TheValue(fd).type # "application/pdf"
       \/ TheValue(fd).size > 10 * 1024 * 1024

\* C4: a call with a file that is not 'application/pdf' or is larger than
\* 10 MiB returns an error in its first step, with no storage client
\* created, no collaborator called and the bucket and both tables as they
\* were; this holds for every call, so also for a repeated one.
C4_InvalidInputNoSideEffect ==
    [][\A r \in Runs :
         (pc[r] = "idle" /\ pc'[r] # "idle" /\ WrongTypeOrTooLarge(file'[r])) =>
            /\ pc'[r] = "done"
            /\ result'[r].tag = "error"
            /\ result'[r].error[1] \in {"File too large. Maximum 10MB.",
                                        "Only PDF files are supported."}
            /\ ~client'[r]
            /\ calls'[r] = << >>
            /\ objects' = objects
            /\ scans' = scans
            /\ scan_results' = scan_results]_vars

C4_Witness ==
    /\ \A r \in Runs : pc[r] = "done" /\ WrongTypeOrTooLarge(file[r])
    /\ file[1] = file[2]
    /\ TheValue(file[1]).size > 10 * 1024 * 1024
    /\ TheValue(file[1]).type = "application/pdf"
    /\ objects = << >> /\ scans = << >> /\ scan_results = << >>
    /\ \A r \in Runs : result[r].tag = "error" /\ ~client[r]

\* C5, as stated: a file of size 0 and type 'application/pdf' is rejected by
\* the validation: the call returns an error, and the run writes no object
\* and inserts no Scan row.
C5_EmptyFileRejected ==
    \A r \in Runs :
        (/\ file[r] # Null
         /\ TheValue(file[r]).size = 0
         /\ TheValue(file[r]).type = "application/pdf") =>
            /\ \A p \in DOMAIN objects : objects[p].by # r
            /\ scanId[r] = 0
            /\ pc[r] = "done" => result[r].tag = "error"

\* the number of items of the provider's response to run r
ItemCount(r) == TheValue(TheValue(tavilyResult[r]).results)

EnrichmentSucceeded(r) ==
    /\ HasCall(r, "search", TRUE)
    /\ TheValue(tavilyResult[r]).results # Null

\* C6: when the enrichment returned k items and neither the scan_results
\* insert nor the final update failed, then once the run has returned there
\* are exactly k ScanResult rows with the run's scan id, one per item, the
\* Scan is 'completed', and the caller holds that Scan with those k rows.
C6_ExactlyKResults ==
    \A r \in Runs :
        (/\ pc[r] = "done"
         /\ EnrichmentSucceeded(r)
         /\ ~HasCall(r, "insertResults", FALSE)
         /\ LastCall(r) = Call("update", Null, scanId[r], TRUE)) =>
            /\ Cardinality(ResultsOf(scanId[r])) = ItemCount(r)
            /\ \A k \in 1..ItemCount(r) :
                 \E i \in ResultsOf(scanId[r]) : scan_results[i].rank = k
            /\ RowOf(r).status = "completed"
            /\ result[r].tag = "data"
            /\ TheValue(result[r].data).scan = RowOf(r)
            /\ Len(TheValue(result[r].data).scan_results) = ItemCount(r)
            /\ \A i \in 1..ItemCount(r) :
                 TheValue(result[r].data).scan_results[i] =
                    [scan_id |-> scanId[r], rank |-> i]

C6_Witness ==
    \E r \in Runs :
        /\ pc[r] = "done"
        /\ EnrichmentSucceeded(r)
        /\ ItemCount(r) = MaxResults
        /\ HasCall(r, "insertResults", TRUE)
        /\ result[r].tag = "data"
        /\ Cardinality(ResultsOf(scanId[r])) = MaxResults
        /\ Len(scan_results) > MaxResults

Terminal == {"completed", "failed"}

\* C7: in every step every Scan row stays in the table; a row that is
\* 'completed' or 'failed' keeps its status, a 'processing' row stays
\* 'processing' or becomes 'completed' or 'failed', and no row is 'pending'.
C7_StatusForwardOnly ==
    [][/\ Len(scans') >= Len(scans)
       /\ \A i \in DOMAIN scans :
            /\ scans[i].status \in Terminal => scans'[i].status = scans[i].status
            /\ scans[i].status = "processing" =>
                 scans'[i].status \in {"processing"} \cup Terminal
       /\ \A i \in DOMAIN scans' :
            scans'[i].status \in {"processing"} \cup Terminal]_vars

C7_Witness ==
    /\ Len(scans) = 2
    /\ scans[1].status = "failed"
    /\ scans[2].status = "completed"
    /\ \E r \in Runs : LastCall(r) = Call("update", Null, 2, TRUE)
    /\ \A r \in Runs : pc[r] = "done"

Returned(r) == pc[r] = "done" /\ result[r].tag \in {"error", "data"}

\* C8, as stated: once the run that created a Scan row has returned, the
\* row is 'completed' or 'failed', whatever the collaborators answered.
C8_TerminalOnReturn ==
    \A r \in Runs :
        (Returned(r) /\ scanId[r] # 0) => RowOf(r).status \in Terminal

\* C8, amended: once the run that created a Scan row has returned, the row
\* is 'completed' or 'failed' if the run's update of the row succeeded, and
\* is still 'processing' if that update (the update to 'failed' or the
\* final update) failed; it is never 'pending'.
C8_TerminalOnReturnUnlessUpdateFailed ==
    \A r \in Runs :
        (Returned(r) /\ scanId[r] # 0) =>
            /\ LastCall(r).op = "update"
            /\ LastCall(r).id = scanId[r]
            /\ LastCall(r).ok => RowOf(r).status \in Terminal
            /\ ~LastCall(r).ok => RowOf(r).status = "processing"

C8_Witness ==
    \E r1, r2 \in Runs :
        /\ Returned(r1) /\ scanId[r1] # 0 /\ LastCall(r1).ok
        /\ RowOf(r1).status = "completed"
        /\ Returned(r2) /\ scanId[r2] # 0 /\ ~LastCall(r2).ok
        /\ RowOf(r2).status = "processing"

FinalUpdateFailed(r) ==
    /\ EnrichmentSucceeded(r)
    /\ LastCall(r) = Call("update", Null, scanId[r], FALSE)

\* C9: when the final update fails the caller gets the error "Failed to
\* save scan results." and no data, the Scan row is still 'processing' with
\* none of the final columns set, and the ScanResult rows the run inserted
\* are still in the table.
C9_FinalUpdateFailureSurfaced ==
    \A r \in Runs :
        (pc[r] = "done" /\ FinalUpdateFailed(r)) =>
            /\ result[r] = ReturnError("Failed to save scan results.", "")
            /\ RowOf(r).status = "processing"
            /\ RowOf(r).summary = Null
            /\ RowOf(r).extracted_text = Null
            /\ Cardinality(ResultsOf(scanId[r])) =
                 IF HasCall(r, "insertResults", TRUE) THEN ItemCount(r) ELSE 0

C9_Witness ==
    \E r \in Runs :
        /\ pc[r] = "done"
        /\ FinalUpdateFailed(r)
        /\ HasCall(r, "insertResults", TRUE)
        /\ Cardinality(ResultsOf(scanId[r])) = MaxResults
        /\ result[r].tag = "error"

\* C10: a run whose bulk insert of ScanResult rows failed goes on to the
\* final update and does not return before issuing it; when that update
\* succeeds the Scan is 'completed' with the extracted name, the stored
\* text, the query and the summary, no ScanResult row of the run exists,
\* and the caller gets the Scan as data.
C10_ResultsInsertFailureTolerated ==
    \A r \in Runs :
        HasCall(r, "insertResults", FALSE) =>
            /\ pc[r] \in {"update", "done"}
            /\ pc[r] = "done" => LastCall(r).op = "update"
            /\ (pc[r] = "done" /\ LastCall(r).ok) =>
                 /\ RowOf(r).status = "completed"
                 /\ RowOf(r).extracted_name = candidateName[r]
                 /\ RowOf(r).extracted_text # Null
                 /\ RowOf(r).extracted_text =
                      Some(Slice0(TheValue(extractedText[r]), 5000))
                 /\ RowOf(r).search_query # Null
                 /\ RowOf(r).search_query = searchQuery[r]
                 /\ RowOf(r).summary \in
                      {TheValue(tavilyResult[r]).answer,
                       Some("No summary available.")}
                 /\ RowOf(r).summary # Null
                 /\ RowOf(r).error_message = Null
                 /\ ResultsOf(scanId[r]) = {}
                 /\ result[r] = ReturnData([scan |-> RowOf(r),
                                            scan_results |-> << >>])

C10_Witness ==
    \E r \in Runs :
        /\ pc[r] = "done"
        /\ HasCall(r, "insertResults", FALSE)
        /\ LastCall(r) = Call("update", Null, scanId[r], TRUE)
        /\ RowOf(r).status = "completed"
        /\ RowOf(r).extracted_name # Null
        /\ result[r].tag = "data"

\* C11, as stated: two runs never hold the same storage path or the same
\* Scan id, and every call of a run that names a path or a row names the
\* run's own path and row, an object of the run's path being one the run
\* itself wrote.
C11_RunsIndependent ==
    \A r1, r2 \in Runs :
        r1 # r2 =>
            /\ (filePath[r1] # Null /\ filePath[r2] # Null) =>
                 filePath[r1] # filePath[r2]
            /\ (scanId[r1] # 0 /\ scanId[r2] # 0) => scanId[r1] # scanId[r2]
            /\ \A i \in 1..Len(calls[r1]) :
                 /\ calls[r1][i].path # Null =>
                      /\ calls[r1][i].path = filePath[r1]
                      /\ calls[r1][i].path # filePath[r2]
                 /\ calls[r1][i].id # 0 =>
                      /\ calls[r1][i].id = scanId[r1]
                      /\ calls[r1][i].id # scanId[r2]

\* the calls of a run without their targets: which calls, and how each ended
Outcomes(r) == [i \in 1..Len(calls[r]) |-> << calls[r][i].op, calls[r][i].ok >>]

\* C12, as stated: two runs on the same file whose collaborator calls ended
\* the same way (they differ at most in the message a failing call carried)
\* return the same error value.
C12_ErrorIndependentOfCollaboratorText ==
    \A r1, r2 \in Runs :
        (/\ pc[r1] = "done" /\ pc[r2] = "done"
         /\ result[r1].tag = "error" /\ result[r2].tag = "error"
         /\ file[r1] = file[r2]
         /\ client[r1] = client[r2]
         /\ Outcomes(r1) = Outcomes(r2)) =>
            result[r1].error = result[r2].error

CleanupFailed(r) ==
    /\ InsertFailedAfterUpload(r)
    /\ LastCall(r).op = "remove"
    /\ ~LastCall(r).ok

\* C13: when the scans insert failed and the delete of the uploaded object
\* failed too, the run returns an error value, and it is the error of the
\* failed insert, carrying the insert's message.
C13_CleanupFailureDoesNotMask ==
    \A r \in Runs :
        (pc[r] = "done" /\ CleanupFailed(r)) =>
            /\ result[r].tag = "error"
            /\ result[r].data = Null
            /\ scanError[r] # Null
            /\ result[r].error =
                 << "Failed to create scan record: ", TheValue(scanError[r]) >>

C13_Witness ==
    \E r \in Runs :
        /\ pc[r] = "done"
        /\ CleanupFailed(r)
        /\ ThePath(r) \in DOMAIN objects
        /\ result[r].error[1] = "Failed to create scan record: "

JordanLee ==
    <<"J","o","r","d","a","n"," ","L","e","e">>

JordanLeeQuery ==
    <<"J","o","r","d","a","n"," ","L","e","e"," ","p","r","o","f","e","s","s",
      "i","o","n","a","l"," ","b","a","c","k","g","r","o","u","n","d"," ","w",
      "o","r","k"," ","e","x","p","e","r","i","e","n","c","e">>

NoCallFailed(r) == \A i \in 1..Len(calls[r]) : calls[r][i].ok

\* C14, as stated: a valid PDF whose text starts with the line "Jordan Lee",
\* every call succeeding and the provider returning 2 results, ends with a
\* 'completed' Scan of extracted_name "Jordan Lee", search_query "Jordan Lee
\* professional background work experience" and exactly 2 ScanResult rows.
C14_JordanLeeEndToEnd ==
    \A r \in Runs :
        (/\ pc[r] = "done"
         /\ file[r] # Null
         /\ TheFile(r).bytes = "jordan"
         /\ NoCallFailed(r)
         /\ EnrichmentSucceeded(r)
         /\ ItemCount(r) = 2) =>
            /\ RowOf(r).status = "completed"
            /\ Cardinality(ResultsOf(scanId[r])) = 2
            /\ RowOf(r).extracted_name = Some(JordanLee)
            /\ RowOf(r).search_query = Some(JordanLeeQuery)

LowerSeq(s) == [i \in 1..Len(s) |-> ToLower(s[i])]

\* the markers of the deny list, as substrings
DenyMarkers ==
    { <<"@">>,
      <<"h","t","t","p">>,
      <<"w","w","w">>,
      <<"r","e","s","u","m","e">>,
      <<"c","u","r","r","i","c","u","l","u","m">>,
      <<"c","v">> }

HasSubSeq(s, sub) ==
    \E i \in 1..Len(s) :
        /\ i + Len(sub) - 1 <= Len(s)
        /\ \A j \in 1..Len(sub) : s[i + j - 1] = sub[j]

\* the first non-empty trimmed line of text, if it has one
FirstLine(text) ==
    LET ls == SplitLines(text)
        nonEmpty == {i \in 1..Len(ls) : Trim(ls[i]) # << >>}
    IN IF nonEmpty = {} THEN Null
       ELSE Some(Trim(ls[CHOOSE i \in nonEmpty : \A j \in nonEmpty : i <= j]))

\* what C15 says extractCandidateName returns
ClaimedName(text) ==
    IF /\ FirstLine(text) # Null
       /\ Len(TheValue(FirstLine(text))) < 60
       /\ \A m \in DenyMarkers :
            ~HasSubSeq(LowerSeq(TheValue(FirstLine(text))), m)
    THEN FirstLine(text)
    ELSE Null

\* C15, as stated: extractCandidateName(text) is the first non-empty trimmed
\* line of text when that line is shorter than 60 characters and has none
\* of the markers '@', 'http', 'www', 'resume', 'curriculum', 'cv' in it
\* (in any case), and is none otherwise.
C15_NameIffShortAndNoMarker ==
    pc[1] \in {"nameApplied", "bothApplied"} =>
        candidateName[1] = ClaimedName(TheValue(extractedText[1]))

ClaimedQuerySuffix ==
    <<" ","p","r","o","f","e","s","s","i","o","n","a","l"," ","b","a","c","k",
      "g","r","o","u","n","d"," ","w","o","r","k"," ","e","x","p","e","r","i",
      "e","n","c","e">>

ClaimedFallbackPrefix ==
    <<"c","a","n","d","i","d","a","t","e"," ","p","r","o","f","i","l","e",":",
      " ">>

\* C16: the query built from a text and a name is the name followed by
\* " professional background work experience" when a name is given (neither
\* none nor empty), and otherwise "candidate profile: " followed by the
\* first 200 characters of the text (all of it when shorter); nothing else
\* of the text enters it.
C16_QueryFromNameOrPrefix ==
    pc[1] \in {"queryApplied", "bothApplied"} =>
        LET text == TheValue(extractedText[1])
            name == candidateName[1]
            first == [i \in 1..(IF Len(text) > 200 THEN 200 ELSE Len(text)) |->
                        text[i]]
        IN /\ searchQuery[1] # Null
           /\ (name # Null /\ name # Some(<< >>)) =>
                 TheValue(searchQuery[1]) = TheValue(name) \o ClaimedQuerySuffix
           /\ (name = Null \/ name = Some(<< >>)) =>
                 TheValue(searchQuery[1]) = ClaimedFallbackPrefix \o first

C16_Witness ==
    /\ pc[1] = "bothApplied"
    /\ candidateName[1] = Null
    /\ Len(TheValue(extractedText[1])) > 200
    /\ HasSubSeq(TheValue(extractedText[1]), <<"g","i","t","h","u","b">>)
    /\ ~HasSubSeq(TheValue(searchQuery[1]), <<"g","i","t","h","u","b">>)
    /\ Len(TheValue(searchQuery[1])) = 200 + Len(ClaimedFallbackPrefix)

\* C17, as stated: a run that has ended has handed its caller a success
\* value or an error value; no exception leaves scanCv.
C17_AlwaysReturnsAValue ==
    \A r \in Runs :
        pc[r] = "done" =>
            /\ result[r].tag \in {"data", "error"}
            /\ result[r].tag = "data" <=> result[r].data # Null

CallCount(r, op) ==
    Cardinality({i \in 1..Len(calls[r]) : calls[r][i].op = op})

\* C18: scan_results only grows at its end, so no row is updated or removed;
\* the rows one step adds come from one successful insert call of one run
\* and all carry the id of a Scan row that is in the table before the step;
\* a run issues at most one such insert, and only after its enrichment call
\* succeeded.
C18_ResultsInsertedOnceForExistingScan ==
    [][/\ Len(scan_results') >= Len(scan_results)
       /\ SubSeq(scan_results', 1, Len(scan_results)) = scan_results
       /\ \A i \in (Len(scan_results) + 1)..Len(scan_results') :
            /\ scan_results'[i].scan_id \in DOMAIN scans
            /\ scans[scan_results'[i].scan_id].id = scan_results'[i].scan_id
       /\ scan_results' # scan_results =>
            \E r \in Runs :
                /\ calls'[r] = Append(calls[r],
                                      Call("insertResults", Null, scanId[r], TRUE))
                /\ \A i \in (Len(scan_results) + 1)..Len(scan_results') :
                     scan_results'[i].scan_id = scanId[r]
       /\ \A r \in Runs :
            /\ CallCount(r, "insertResults")' <= 1
            /\ \A i \in 1..Len(calls'[r]) :
                 calls'[r][i].op = "insertResults" =>
                    \E j \in 1..(i - 1) :
                        calls'[r][j].op = "search" /\ calls'[r][j].ok]_vars

C18_Witness ==
    /\ Len(scan_results) = 2 * MaxResults
    /\ scan_results[1].scan_id # scan_results[Len(scan_results)].scan_id
    /\ \A r \in Runs : HasCall(r, "insertResults", TRUE)

\* C19, as stated: after an enrichment failure that follows a successful
\* extraction, a successful update to 'failed' has stored the extracted
\* name, the truncated text and the query in the Scan row.
C19_FailedUpdateKeepsArtifacts ==
    \A r \in Runs :
        (/\ pc[r] = "done"
         /\ HasCall(r, "extract", TRUE)
         /\ EnrichmentFailed(r)
         /\ LastCall(r) = Call("update", Null, scanId[r], TRUE)) =>
            /\ RowOf(r).status = "failed"
            /\ RowOf(r).extracted_name = candidateName[r]
            /\ RowOf(r).extracted_text =
                 Some(Slice0(TheValue(extractedText[r]), 5000))
            /\ RowOf(r).search_query = searchQuery[r]

StageOrder ==
    << "upload", "insert", "extract", "search", "insertResults", "update" >>

StageRank(op) == CHOOSE i \in DOMAIN StageOrder : StageOrder[i] = op

StageCalls(r) ==
    SelectSeq(calls[r],
              LAMBDA c : \E i \in DOMAIN StageOrder : StageOrder[i] = c.op)

\* C21: the stage calls a run has issued are in the fixed order upload,
\* insert, extract, search, insertResults, update, each at most once; a run
\* whose upload, insert, extraction or search failed is at none of the later
\* stages, and the only stage call that follows the failure is the one update
\* that records a failed extraction or search (the calls of a run are made
\* one after the other: each is in the log when the next is issued).
C21_FixedOrderNoRetry ==
    \A r \in Runs :
        LET s == StageCalls(r) IN
        /\ \A i, j \in DOMAIN s :
             i < j => StageRank(s[i].op) < StageRank(s[j].op)
        /\ \A i \in DOMAIN s :
             (s[i].op \in {"upload", "insert", "extract", "search"} /\ ~s[i].ok) =>
                /\ pc[r] \notin {"insert", "extract", "search",
                                 "insertResults", "update"}
                /\ \A j \in DOMAIN s :
                     j > i => /\ s[j].op = "update"
                              /\ s[i].op \in {"extract", "search"}
                              /\ RowOf(r).status # "completed"

C21_Witness ==
    \E r1, r2 \in Runs :
        /\ pc[r1] = "done" /\ Len(StageCalls(r1)) = 6
        /\ \A i \in 1..6 : StageCalls(r1)[i].op = StageOrder[i]
        /\ pc[r2] = "done" /\ HasCall(r2, "extract", FALSE)
        /\ Len(StageCalls(r2)) = 4

\* C22: a run issues a delete only after its upload succeeded and its scans
\* insert failed, and only of its own path; no step removes a Scan row or
\* changes its file_path, and the object at the file_path of every Scan row
\* is in the store after every step.
C22_DeleteOnlyAsCompensation ==
    [][/\ \A r \in Runs :
            \A i \in 1..Len(calls'[r]) :
                calls'[r][i].op = "remove" =>
                    /\ calls'[r][i].path = filePath'[r]
                    /\ scanId'[r] = 0
                    /\ \E j \in 1..(i - 1) :
                         calls'[r][j] = Call("upload", filePath'[r], 0, TRUE)
                    /\ \E j \in 1..(i - 1) :
                         calls'[r][j] = Call("insert", Null, 0, FALSE)
       /\ Len(scans') >= Len(scans)
       /\ \A i \in DOMAIN scans :
            /\ scans'[i].id = scans[i].id
            /\ scans'[i].file_path = scans[i].file_path
       /\ \A i \in DOMAIN scans' : scans'[i].file_path \in DOMAIN objects']_vars

C22_Witness ==
    \E r1, r2 \in Runs :
        /\ HasCall(r1, "remove", TRUE)
        /\ Returned(r2) /\ ExtractionFailed(r2)
        /\ RowOf(r2).status = "failed"
        /\ RowOf(r2).file_path \in DOMAIN objects

\* C23, as stated: in the step in which a run's upload fails the run returns
\* an error, the upload is the only call it has issued, both tables are
\* unchanged and no object is at the run's path.
C23_UploadFailureLeavesNothing ==
    [][\A r \in Runs :
          (pc[r] = "upload" /\ pc'[r] = "done") =>
              /\ result'[r].tag = "error"
              /\ calls'[r] = << Call("upload", filePath[r], 0, FALSE) >>
              /\ scans' = scans
              /\ scan_results' = scan_results
              /\ objects' = objects
              /\ ThePath(r) \notin DOMAIN objects']_vars

\* C25: every searchTavily call of the log is preceded by its read of the
\* credential; without a credential no provider call is issued and the call
\* fails; with one exactly one provider call is issued, and searchTavily
\* fails when that call fails; every provider call of the log belongs to one
\* searchTavily call; a failed searchTavily call hands no result to scanCv.
C25_OneProviderCallOrNone ==
    \A r \in Runs :
        LET c == calls[r] IN
        /\ \A i \in 1..Len(c) :
             c[i].op = "search" =>
                /\ i > 1
                /\ \/ /\ c[i - 1] = Call("apiKey", Null, 0, FALSE)
                      /\ ~c[i].ok
                   \/ /\ i > 2
                      /\ c[i - 2] = Call("apiKey", Null, 0, TRUE)
                      /\ c[i - 1].op = "fetch"
                      /\ c[i - 1].ok = c[i].ok
        /\ \A i \in 1..Len(c) :
             c[i].op = "fetch" => (i < Len(c) /\ c[i + 1].op = "search")
        /\ CallCount(r, "fetch") <= CallCount(r, "search")
        /\ HasCall(r, "search", FALSE) => tavilyResult[r] = Null
        /\ HasCall(r, "search", TRUE) => tavilyResult[r] # Null

C25_Witness ==
    \E r1, r2 \in Runs :
        /\ HasCall(r1, "apiKey", FALSE) /\ HasCall(r1, "search", FALSE)
        /\ CallCount(r1, "fetch") = 0
        /\ HasCall(r2, "fetch", FALSE) /\ HasCall(r2, "search", FALSE)
        /\ tavilyResult[r1] = Null /\ tavilyResult[r2] = Null

\* C26: the objects a compensating delete removes were written by the run
\* that deletes them, and no Scan row references their path.
C26_CleanupSparesReferencedObjects ==
    [][\A r \in Runs :
          (pc[r] = "remove" /\ pc'[r] = "done") =>
              \A p \in DOMAIN objects \ DOMAIN objects' :
                  /\ objects[p].by = r
                  /\ ~Referenced(scans', p)]_vars

\* two runs with the same path: one deleted its object after a failed
\* insert, the other wrote an object at the path and inserted its Scan row
C26_Witness ==
    \E r1, r2 \in Runs :
        /\ r1 # r2
        /\ filePath[r1] # Null /\ filePath[r1] = filePath[r2]
        /\ HasCall(r1, "remove", TRUE)
        /\ HasCall(r2, "insert", TRUE)
        /\ RowOf(r2).file_path = ThePath(r1)
        /\ ThePath(r1) \in DOMAIN objects

\* C27: in the step in which a run returns, it returns data exactly when its
\* Scan row is 'completed' after the step, and the Scan it returns is that
\* row; a run that has returned an error has no 'completed' Scan row.
C27_DataIffCompleted ==
    [][\A r \in Runs :
          /\ Returning(r) =>
               /\ result'[r].tag = "data" <=>
                     (scanId'[r] # 0 /\ scans'[scanId'[r]].status = "completed")
               /\ result'[r].tag = "data" =>
                     /\ TheValue(result'[r].data).scan = scans'[scanId'[r]]
                     /\ TheValue(result'[r].data).scan.status = "completed"
          /\ (pc'[r] = "done" /\ result'[r].tag = "error" /\ scanId'[r] # 0) =>
               scans'[scanId'[r]].status # "completed"]_vars

C27_Witness ==
    \E r1, r2 \in Runs :
        /\ Returned(r1) /\ result[r1].tag = "data"
        /\ RowOf(r1).status = "completed"
        /\ Returned(r2) /\ result[r2].tag = "error" /\ scanId[r2] # 0
        /\ FinalUpdateFailed(r2)

\* C28: a Scan row has an error_message exactly when its status is 'failed'.
C28_ErrorMessageIffFailed ==
    \A i \in DOMAIN scans :
        (scans[i].error_message # Null) <=> (scans[i].status = "failed")

C28_Witness ==
    /\ \E i \in DOMAIN scans :
         scans[i].status = "failed" /\ scans[i].error_message # Null
    /\ \E i \in DOMAIN scans :
         scans[i].status = "completed" /\ scans[i].error_message = Null

\* C24: when a run has returned data, the extracted_text of its Scan row is
\* the first 5000 characters of the extracted text, and the whole text when
\* that is shorter; its summary is the provider's answer when that is not
\* empty, and "No summary available." when the response carries no answer.
C24_StoredTextAndSummary ==
    \A r \in Runs :
        (pc[r] = "done" /\ result[r].tag = "data") =>
            LET text == TheValue(extractedText[r])
                row == RowOf(r)
                answer == TheValue(tavilyResult[r]).answer
            IN /\ row.status = "completed"
               /\ row.extracted_text # Null
               /\ Len(TheValue(row.extracted_text)) =
                    (IF Len(text) <= 5000 THEN Len(text) ELSE 5000)
               /\ \A i \in 1..Len(TheValue(row.extracted_text)) :
                    TheValue(row.extracted_text)[i] = text[i]
               /\ (answer # Null /\ answer # Some("")) => row.summary = answer
               /\ answer = Null => row.summary = Some("No summary available.")
               /\ TheValue(result[r].data).scan = row

\* a text longer than 5000 characters stored without an answer, after the
\* ScanResult rows were inserted
C24_Witness ==
    /\ pc[1] = "done" /\ result[1].tag = "data"
    /\ Len(TheValue(extractedText[1])) = 5001
    /\ Len(TheValue(RowOf(1).extracted_text)) = 5000
    /\ TheValue(tavilyResult[1]).answer = Null
    /\ RowOf(1).summary = Some("No summary available.")
    /\ HasCall(1, "insertResults", TRUE)

\* activation h of handleScan has called scanCv and the call has not settled
InFlight(h) == handler[h].pc = "awaiting"

\* C29, as stated: at most one scanCv call of the component is in flight.
C29_AtMostOneScanInFlight ==
    Cardinality({h \in Runs : InFlight(h)}) <= 1

\* C30, as stated: once the scanCv call of an activation has settled,
\* isScanning becomes false, whatever the call gave.
C30_ScanningEndsAfterSettle ==
    \A h \in Runs : (handler[h].pc = "settled") ~> (isScanning = FALSE)

====
